---- MODULE Spec2Model ----
(***************************************************************************)
(* A model of the ValueSet API: the relational store (valuesets and        *)
(* valueset_values), the data-access layer of app/database.py and the CSV  *)
(* ingestion pipeline of ingestion/csv_loader.py.                          *)
(*                                                                         *)
(* Strings are TLA+ strings.  Python's None is the string None; a Python   *)
(* list is a sequence; a parsed JSON document is a record [type, items].   *)
(***************************************************************************)
EXTENDS Integers, Sequences, FiniteSets, TLC

VARIABLES
    db,        \* the committed contents of the SQLite file: both tables
    tx,        \* the loader's open session: the transaction's view of the tables
    pending,   \* ORM objects added to the session and not yet flushed
    pc,        \* where the loader is inside ingest_csv
    call,      \* the arguments of the running (or last) ingest_csv call
    valueset,  \* the ValueSet object load_valueset_from_csv returned
    raised,    \* the exception the last ingest_csv call raised, or no error
    pre,       \* the committed store when the last ingest_csv call started
    resp,      \* what the last read operation returned
    cli,       \* the last run of the ingest-csv command: its arguments and outcome
    workers    \* loader processes that ingest at the same time, and the write lock

vars == <<db, tx, pending, pc, call, valueset, raised, pre, resp, cli, workers>>

(***************************************************************************)
(* Bounds of the model.                                                    *)
(***************************************************************************)
MaxRows == 2          \* data rows per CSV file

(***************************************************************************)
(* Values.                                                                 *)
(***************************************************************************)
None == "<None>"

\* The strings the model compares, in code-point order (Python's str order
\* and SQLite's BINARY collation agree on it).
CodepointOrder == <<"Alpha", "Beta", "Gamma", "t1", "t2", "t3", "t4", "vsA", "vsB", "vsC">>

StrIndex(s) == CHOOSE i \in 1..Len(CodepointOrder) : CodepointOrder[i] = s

StrLess(a, b) == StrIndex(a) < StrIndex(b)

StrLeq(a, b) == StrIndex(a) <= StrIndex(b)

Range(s) == {s[i] : i \in 1..Len(s)}

SeqsUpTo(S, n) == UNION {[1..k -> S] : k \in 0..n}

\* The permutations of a finite set, as sequences.
Perms(S) == {p \in [1..Cardinality(S) -> S] : Range(p) = S}

(***************************************************************************)
(* app/config.py                                                           *)
(***************************************************************************)
purl_base_url == "https://api.example.com"

generate_purl_valueset(accession) == purl_base_url \o "/valuesets/" \o accession

generate_purl_term(accession) == purl_base_url \o "/terms/" \o accession

(***************************************************************************)
(* pydantic's HttpUrl: the texts that validate, each with its normal form. *)
(***************************************************************************)
UrlTable ==
    { <<"https://example.org/t2", "https://example.org/t2">>,
      <<"http://x", "http://x/">>,
      <<"http://x/", "http://x/">> }
    \cup { <<generate_purl_valueset(a), generate_purl_valueset(a)>> : a \in {"vsA", "vsB", "vsC"} }
    \cup { <<generate_purl_term(a), generate_purl_term(a)>> : a \in {"t1", "t2", "t3", "t4"} }

IsUrl(text) == \E p \in UrlTable : p[1] = text

HttpUrl(text) == (CHOOSE p \in UrlTable : p[1] = text)[2]

(***************************************************************************)
(* json.loads and json.dumps over the documents the model uses.  A parsed  *)
(* document is [type, items]: a list of strings, a dict given by its       *)
(* <<key, value>> pairs, or a number.                                      *)
(***************************************************************************)
JList(items) == [type |-> "list", items |-> items]

JDict(pairs) == [type |-> "dict", items |-> pairs]

JNumber(n) == [type |-> "number", items |-> <<n>>]

\* <<text, document, TRUE iff the text is what json.dumps writes>>
JsonTable ==
    { <<"[]", JList(<<>>), TRUE>>,
      <<"{}", JDict(<<>>), TRUE>>,
      <<"[\"t1\"]", JList(<<"t1">>), TRUE>>,
      <<"[ \"t1\" ]", JList(<<"t1">>), FALSE>>,
      <<"[\"http://x/\"]", JList(<<"http://x/">>), TRUE>>,
      <<"[\"http://x\"]", JList(<<"http://x">>), TRUE>>,
      <<"{\"icd10\": \"E11\"}", JDict(<< <<"icd10", "E11">> >>), TRUE>>,
      <<"5", JNumber(5), TRUE>>,
      <<"0", JNumber(0), TRUE>> }

IsJson(text) == \E e \in JsonTable : e[1] = text

JsonLoads(text) == (CHOOSE e \in JsonTable : e[1] = text)[2]

JsonDumps(doc) == (CHOOSE e \in JsonTable : e[3] /\ e[2].type = doc.type /\ e[2].items = doc.items)[1]

JNone == [type |-> "none", items |-> <<>>]

\* Python truthiness of a parsed document (JNone is Python's None).
Truthy(v) ==
    CASE v.type = "none" -> FALSE
      [] v.type = "number" -> v.items # <<0>>
      [] OTHER -> v.items # <<>>

(***************************************************************************)
(* CSV files.  csv.DictReader gives one dict per data row, keyed by the    *)
(* header's column names; a row is a function from the header to the cell  *)
(* texts.                                                                  *)
(***************************************************************************)
required_columns == <<"accession", "label", "value", "definition", "full_definition">>

optional_columns == {"pURL", "identical_terms", "similar_terms", "deprecated", "deprecated_to", "additional"}

CsvRow(accession, label, purl, deprecated, deprecated_to) ==
    [accession |-> accession, label |-> label, value |-> "value",
     definition |-> "Definition", full_definition |-> "Full definition",
     pURL |-> purl, identical_terms |-> "", similar_terms |-> "",
     deprecated |-> deprecated, deprecated_to |-> deprecated_to, additional |-> ""]

RowPool ==
    { CsvRow("t1", "Gamma", "", "", ""),
      CsvRow("t2", "Alpha", "https://example.org/t2", "TRUE", "[ \"t1\" ]"),
      CsvRow("t3", "Beta", "", "no", "{oops"),
      CsvRow("t4", "Alpha", "not a url", "yes", "") }

HeaderFull == Range(required_columns) \cup optional_columns

\* A header without three of the optional columns.
HeaderShort == HeaderFull \ {"identical_terms", "similar_terms", "additional"}

HeaderNoLabel == HeaderFull \ {"label"}

HeaderWrong == {"wrong_column", "another_column"}

Headers == {HeaderFull, HeaderShort, HeaderNoLabel, HeaderWrong}

CsvRows(header) ==
    { [c \in header |-> IF c \in DOMAIN r THEN r[c] ELSE "value1"] : r \in RowPool }

\* A path that cannot be opened, and a file of zero bytes.
UnreadableFile == [readable |-> FALSE, header |-> {}, rows |-> <<>>]

EmptyFile == [readable |-> TRUE, header |-> {}, rows |-> <<>>]

CsvFiles ==
    {UnreadableFile, EmptyFile} \cup
    UNION { { [readable |-> TRUE, header |-> h, rows |-> rs] : rs \in SeqsUpTo(CsvRows(h), MaxRows) }
            : h \in Headers }

\* row.get(column, default)
RowGet(row, column, default) == IF column \in DOMAIN row THEN row[column] ELSE default

\* text.strip().lower() on the cells the model uses
StripLower(text) ==
    CASE text = "TRUE" -> "true"
      [] text = " Yes " -> "yes"
      [] OTHER -> text

\* text.strip()
Strip(text) ==
    CASE text = " Yes " -> "Yes"
      [] OTHER -> text

(***************************************************************************)
(* ingestion/csv_loader.py                                                 *)
(***************************************************************************)
\* The default parse_json_field falls back to, chosen by the field's name.
FieldDefault(field_name) ==
    CASE field_name \in {"identical_terms", "similar_terms", "deprecated_to"} -> JList(<<>>)
      [] field_name = "additional" -> JDict(<<>>)
      [] OTHER -> JNone

\* A decoder that gives up on text that is not JSON: what it returns makes
\* the row fail.
ParseJsonFieldStrict(value, field_name) ==
    IF value = "" \/ value = None THEN FieldDefault(field_name)
    ELSE IF IsJson(value) THEN JsonLoads(value)
    ELSE [type |-> "undecodable", items |-> <<value>>]

parse_json_field(value, field_name) ==
    IF value = "" \/ value = None THEN FieldDefault(field_name)
    ELSE IF IsJson(value) THEN JsonLoads(value)
    ELSE FieldDefault(field_name)

OrElse(v, default) == IF Truthy(v) THEN v ELSE default

NoError == [type |-> None, msg |-> "", columns |-> <<>>, count |-> 0, rows |-> <<>>]

Exception(type, msg) == [type |-> type, msg |-> msg, columns |-> <<>>, count |-> 0, rows |-> <<>>]

ValueError(msg) == Exception("ValueError", msg)

\* pydantic's validation of ValueSetValue(...): the fields that can fail.
ValueSetValueValid(purl, identical_terms, similar_terms, deprecated_to, additional) ==
    /\ purl = None \/ IsUrl(purl)
    /\ identical_terms.type = "list" /\ \A u \in Range(identical_terms.items) : IsUrl(u)
    /\ similar_terms.type = "list" /\ \A u \in Range(similar_terms.items) : IsUrl(u)
    /\ deprecated_to.type = "list"
    /\ additional.type = "dict"

UrlList(doc) == [i \in 1..Len(doc.items) |-> HttpUrl(doc.items[i])]

\* One pass of the loop body of load_valueset_from_csv on a data row:
\* [ok, value]; ok is FALSE when the row raised.
ParseRow(row, valueset_accession) ==
    LET identical_terms == parse_json_field(RowGet(row, "identical_terms", ""), "identical_terms")
        similar_terms == parse_json_field(RowGet(row, "similar_terms", ""), "similar_terms")
        deprecated_to == parse_json_field(RowGet(row, "deprecated_to", ""), "deprecated_to")
        additional == parse_json_field(RowGet(row, "additional", ""), "additional")
        stripped == Strip(RowGet(row, "pURL", ""))
        purl == IF stripped = "" THEN None ELSE stripped
        deprecated_str == StripLower(RowGet(row, "deprecated", ""))
        deprecated == deprecated_str \in {"true", "1", "yes", "y", "t"}
        it == OrElse(identical_terms, JList(<<>>))
        st == OrElse(similar_terms, JList(<<>>))
        dt == OrElse(deprecated_to, JList(<<>>))
        ad == OrElse(additional, JDict(<<>>))
        ok == ValueSetValueValid(purl, it, st, dt, ad)
    IN  IF ok
        THEN [ok |-> TRUE,
              value |-> [accession |-> row["accession"],
                         valueset |-> valueset_accession,
                         pURL |-> IF purl = None THEN None ELSE HttpUrl(purl),
                         label |-> row["label"],
                         value |-> row["value"],
                         identical_terms |-> UrlList(it),
                         similar_terms |-> UrlList(st),
                         definition |-> row["definition"],
                         full_definition |-> row["full_definition"],
                         deprecated |-> deprecated,
                         deprecated_to |-> dt.items,
                         additional |-> ad.items]]
        ELSE [ok |-> FALSE, value |-> <<>>]

\* A loader that drops the rows that raise instead of failing the file.
ScanRowsSkipping(rows, valueset_accession, i) ==
    LET good == SelectSeq(rows, LAMBDA r : ParseRow(r, valueset_accession).ok)
    IN  [values |-> [k \in 1..Len(good) |-> ParseRow(good[k], valueset_accession).value],
         errors |-> <<>>]

\* A loop that numbers the data rows from 1, the header line not counted.
RECURSIVE ScanRowsFromOne(_, _, _)
ScanRowsFromOne(rows, valueset_accession, i) ==
    IF i > Len(rows) THEN [values |-> <<>>, errors |-> <<>>]
    ELSE LET r == ParseRow(rows[i], valueset_accession)
             rest == ScanRowsFromOne(rows, valueset_accession, i + 1)
         IN  IF r.ok
             THEN [values |-> <<r.value>> \o rest.values, errors |-> rest.errors]
             ELSE [values |-> rest.values, errors |-> <<(i - 1) + 1>> \o rest.errors]

\* A loop that stops at the first row that raises.
RECURSIVE ScanRowsFirstError(_, _, _)
ScanRowsFirstError(rows, valueset_accession, i) ==
    IF i > Len(rows) THEN [values |-> <<>>, errors |-> <<>>]
    ELSE LET r == ParseRow(rows[i], valueset_accession)
             rest == ScanRowsFirstError(rows, valueset_accession, i + 1)
         IN  IF r.ok
             THEN [values |-> <<r.value>> \o rest.values, errors |-> rest.errors]
             ELSE [values |-> <<>>, errors |-> <<(i - 1) + 2>>]

\* The loop of load_valueset_from_csv from row i on: the values appended,
\* and the row numbers (idx + 2) of the rows that raised, in row order.
RECURSIVE ScanRows(_, _, _)
ScanRows(rows, valueset_accession, i) ==
    IF i > Len(rows) THEN [values |-> <<>>, errors |-> <<>>]
    ELSE LET r == ParseRow(rows[i], valueset_accession)
             rest == ScanRows(rows, valueset_accession, i + 1)
         IN  IF r.ok
             THEN [values |-> <<r.value>> \o rest.values, errors |-> rest.errors]
             ELSE [values |-> rest.values, errors |-> <<(i - 1) + 2>> \o rest.errors]

FirstN(s, n) == SubSeq(s, 1, IF Len(s) < n THEN Len(s) ELSE n)

MaxReportedErrors == 10

\* A check that never finds the file empty.
NoRowsNever(rows) == FALSE

\* if not rows
NoRows(rows) == rows = <<>>

\* A column check that stops at the first missing column.
MissingColumnsFirst(fieldnames) ==
    FirstN(SelectSeq(required_columns, LAMBDA col : col \notin fieldnames), 1)

\* missing_columns: the required columns the header lacks, in their order.
MissingColumns(fieldnames) == SelectSeq(required_columns, LAMBDA col : col \notin fieldnames)

\* load_valueset_from_csv: [error, valueset]; error is NoError on success.
load_valueset_from_csv(csv, valueset_accession, valueset_metadata) ==
    LET rows == csv.rows
        missing_columns == MissingColumns(csv.header)
        scan == ScanRows(rows, valueset_accession, 1)
    IN  CASE ~csv.readable ->
               [error |-> ValueError("Failed to read CSV file"), valueset |-> <<>>]
          [] csv.readable /\ NoRows(rows) ->
               [error |-> ValueError("CSV file is empty"), valueset |-> <<>>]
          [] csv.readable /\ ~NoRows(rows) /\ missing_columns # <<>> ->
               [error |-> [ValueError("CSV missing required columns") EXCEPT !.columns = missing_columns],
                valueset |-> <<>>]
          [] csv.readable /\ ~NoRows(rows) /\ missing_columns = <<>> /\ scan.errors # <<>> ->
               [error |-> [ValueError("Failed to parse rows")
                             EXCEPT !.count = Len(scan.errors),
                                    !.rows = FirstN(scan.errors, MaxReportedErrors)],
                valueset |-> <<>>]
          [] OTHER ->
               [error |-> NoError,
                valueset |-> << [accession |-> valueset_accession,
                                 pURL |-> HttpUrl(generate_purl_valueset(valueset_accession)),
                                 definition |-> valueset_metadata.definition,
                                 full_definition |-> valueset_metadata.full_definition,
                                 values |-> scan.values] >>]

(***************************************************************************)
(* app/schema.py: the JSON text columns of a valueset_values row.          *)
(***************************************************************************)
\* get_identical_terms, get_similar_terms, get_deprecated_to
GetJsonList(text) ==
    IF text = None \/ text = "" THEN JList(<<>>)
    ELSE IF IsJson(text) THEN JsonLoads(text)
    ELSE JList(<<>>)

\* get_additional
GetJsonDict(text) ==
    IF text = None \/ text = "" THEN JDict(<<>>)
    ELSE IF IsJson(text) THEN JsonLoads(text)
    ELSE JDict(<<>>)

\* A setter that stores the JSON text of every list, the empty one too.
SetJsonListLiteral(terms) == JsonDumps(JList(terms))

\* set_identical_terms, set_similar_terms, set_deprecated_to
SetJsonList(terms) == IF terms # <<>> THEN JsonDumps(JList(terms)) ELSE None

\* set_additional
SetJsonDict(data) == IF data # <<>> THEN JsonDumps(JDict(data)) ELSE None

(***************************************************************************)
(* The store: two tables, each a set of rows.                              *)
(***************************************************************************)
EmptyTables == [valuesets |-> {}, valueset_values |-> {}]

\* ValueSetORM.values: the rows the relationship loads for a vocabulary.
ValuesOf(tables, accession) == {v \in tables.valueset_values : v.valueset = accession}

(***************************************************************************)
(* app/database.py                                                         *)
(***************************************************************************)
\* What "for url in <decoded>" runs over: the items of a list, the keys of a
\* dict; a number is not iterable.
Iterable(doc) == doc.type \in {"list", "dict"}

Iterate(doc) ==
    IF doc.type = "dict" THEN [i \in 1..Len(doc.items) |-> doc.items[i][1]] ELSE doc.items

\* Whether _orm_to_valueset_value returns for the row: the comprehensions
\* over the decoded URL lists run, and ValueSetValue(...) validates.
OrmReadable(orm) ==
    LET it == GetJsonList(orm.identical_terms)
        st == GetJsonList(orm.similar_terms)
        dt == GetJsonList(orm.deprecated_to)
        ad == GetJsonDict(orm.additional)
    IN  /\ orm.purl \in {None, ""} \/ IsUrl(orm.purl)
        /\ Iterable(it) /\ \A u \in Range(Iterate(it)) : IsUrl(u)
        /\ Iterable(st) /\ \A u \in Range(Iterate(st)) : IsUrl(u)
        /\ dt.type = "list"
        /\ ad.type = "dict"

_orm_to_valueset_value(orm) ==
    [accession |-> orm.accession,
     valueset |-> orm.valueset,
     pURL |-> IF orm.purl \in {None, ""} THEN None ELSE HttpUrl(orm.purl),
     label |-> orm.label,
     value |-> orm.value,
     identical_terms |-> UrlList(JList(Iterate(GetJsonList(orm.identical_terms)))),
     similar_terms |-> UrlList(JList(Iterate(GetJsonList(orm.similar_terms)))),
     definition |-> orm.definition,
     full_definition |-> orm.full_definition,
     deprecated |-> orm.deprecated # 0,
     deprecated_to |-> GetJsonList(orm.deprecated_to).items,
     additional |-> GetJsonDict(orm.additional).items]

\* get_term: [status, term]; status is "none" when no row has the accession
\* and "raised" when the row does not convert.
get_term(tables, accession) ==
    LET found == {v \in tables.valueset_values : v.accession = accession}
        result == CHOOSE r \in found : TRUE
    IN  IF found = {} THEN [status |-> "none", term |-> <<>>]
        ELSE IF ~OrmReadable(result) THEN [status |-> "raised", term |-> <<>>]
        ELSE [status |-> "ok", term |-> <<_orm_to_valueset_value(result)>>]

\* values.sort(key=lambda x: x.label): a stable sort by label.
SortInsert(sorted, x) ==
    LET after == {i \in 1..Len(sorted) : StrLeq(sorted[i].label, x.label)}
        k == IF after = {} THEN 0 ELSE CHOOSE i \in after : \A j \in after : j <= i
    IN  SubSeq(sorted, 1, k) \o <<x>> \o SubSeq(sorted, k + 1, Len(sorted))

\* No sort: the rows stay in the order they were loaded in.
SortByLabelMissing(values) == values

RECURSIVE SortByLabel(_)
SortByLabel(values) ==
    IF values = <<>> THEN <<>>
    ELSE SortInsert(SortByLabel(SubSeq(values, 1, Len(values) - 1)), values[Len(values)])

\* The rows in descending order of accession.
RECURSIVE OrderByAccessionDesc(_)
OrderByAccessionDesc(rows) ==
    IF rows = {} THEN <<>>
    ELSE LET first == CHOOSE r \in rows : \A q \in rows : StrLeq(q.accession, r.accession)
         IN  <<first>> \o OrderByAccessionDesc(rows \ {first})

\* The rows of a select with ORDER BY accession.
RECURSIVE OrderByAccession(_)
OrderByAccession(rows) ==
    IF rows = {} THEN <<>>
    ELSE LET first == CHOOSE r \in rows : \A q \in rows : StrLeq(r.accession, q.accession)
         IN  <<first>> \o OrderByAccession(rows \ {first})

\* A filter that ignores the flag.
FilterDeprecatedNever(rows, include_deprecated) == rows

\* The filter of get_valueset on the loaded rows.
FilterDeprecated(rows, include_deprecated) ==
    IF include_deprecated THEN rows ELSE SelectSeq(rows, LAMBDA v : v.deprecated = 0)

\* get_valueset; load_order is the order in which vs.values loads the rows.
\* [status, valueset]: status is "none" when no vocabulary row is found and
\* "raised" when a row does not convert.
get_valueset(tables, namespace, include_deprecated, load_order) ==
    LET found == {vs \in tables.valuesets : vs.accession = namespace}
        vs == CHOOSE r \in found : TRUE
        kept == FilterDeprecated(load_order, include_deprecated)
        values == [i \in 1..Len(kept) |-> _orm_to_valueset_value(kept[i])]
    IN  IF found = {} THEN [status |-> "none", valueset |-> <<>>]
        ELSE IF (\E i \in 1..Len(kept) : ~OrmReadable(kept[i])) \/ ~IsUrl(vs.purl)
        THEN [status |-> "raised", valueset |-> <<>>]
        ELSE [status |-> "ok",
              valueset |-> << [accession |-> vs.accession,
                               pURL |-> HttpUrl(vs.purl),
                               definition |-> vs.definition,
                               full_definition |-> vs.full_definition,
                               values |-> SortByLabel(values)] >>]

\* A count of the terms that are not deprecated.
CountForActive(tables, accession) ==
    Cardinality({v \in tables.valueset_values : v.valueset = accession /\ v.deprecated = 0})

\* The group-by count of list_valuesets, with counts.get(accession, 0).
CountFor(tables, accession) == Cardinality({v \in tables.valueset_values : v.valueset = accession})

list_valuesets(tables) ==
    LET results == OrderByAccession(tables.valuesets)
    IN  [i \in 1..Len(results) |->
            [accession |-> results[i].accession,
             pURL |-> HttpUrl(results[i].purl),
             definition |-> results[i].definition,
             full_definition |-> results[i].full_definition,
             value_count |-> CountFor(tables, results[i].accession)]]

\* The row insert_valueset builds for a term.
ValueOrm(value) ==
    [accession |-> value.accession,
     valueset |-> value.valueset,
     purl |-> IF value.pURL # None THEN value.pURL ELSE None,
     label |-> value.label,
     value |-> value.value,
     identical_terms |-> SetJsonList(value.identical_terms),
     similar_terms |-> SetJsonList(value.similar_terms),
     definition |-> value.definition,
     full_definition |-> value.full_definition,
     deprecated |-> IF value.deprecated THEN 1 ELSE 0,
     deprecated_to |-> SetJsonList(value.deprecated_to),
     additional |-> SetJsonDict(value.additional)]

\* The vocabulary row insert_valueset builds, with its term rows.
ValueSetOrm(vs) ==
    [row |-> [accession |-> vs.accession, purl |-> vs.pURL,
              definition |-> vs.definition, full_definition |-> vs.full_definition],
     values |-> [i \in 1..Len(vs.values) |-> ValueOrm(vs.values[i])]]

\* A delete of the vocabulary row that leaves its term rows behind.
DeleteWithoutCascade(tables, accession) ==
    [valuesets |-> {vs \in tables.valuesets : vs.accession # accession},
     valueset_values |-> tables.valueset_values]

\* session.delete(existing); session.flush(): the cascade deletes the
\* vocabulary's term rows with it.
DeleteCascade(tables, accession) ==
    [valuesets |-> {vs \in tables.valuesets : vs.accession # accession},
     valueset_values |-> tables.valueset_values \ ValuesOf(tables, accession)]

\* A replacement that deletes the vocabulary row alone.
DeleteExistingRowOnly(tables, accession) ==
    [valuesets |-> {vs \in tables.valuesets : vs.accession # accession},
     valueset_values |-> tables.valueset_values]

\* A replacement that empties the term table, whatever vocabulary a term
\* row belongs to.
DeleteEveryTermRow(tables, accession) ==
    [valuesets |-> {vs \in tables.valuesets : vs.accession # accession},
     valueset_values |-> {}]

\* The first part of insert_valueset: replace-by-delete of an existing row.
DeleteExisting(tables, accession) ==
    IF \E vs \in tables.valuesets : vs.accession = accession
    THEN DeleteCascade(tables, accession)
    ELSE tables

\* A primary key on (valueset, accession): a term accession conflicts only
\* with a row of the same vocabulary.
PrimaryKeyPerVocabulary(tables, orm) ==
    \/ \E vs \in tables.valuesets : vs.accession = orm.row.accession
    \/ \E i \in 1..Len(orm.values) :
          \/ \E v \in tables.valueset_values :
                v.accession = orm.values[i].accession /\ v.valueset = orm.row.accession
          \/ \E j \in 1..(i - 1) : orm.values[j].accession = orm.values[i].accession

\* The INSERTs of the flush at commit: the vocabulary row, then its term
\* rows (each with the parent's key as its foreign key).  A primary key
\* that is already in the table is an IntegrityError.
PrimaryKeyConflict(tables, orm) ==
    \/ \E vs \in tables.valuesets : vs.accession = orm.row.accession
    \/ \E i \in 1..Len(orm.values) :
          \/ \E v \in tables.valueset_values : v.accession = orm.values[i].accession
          \/ \E j \in 1..(i - 1) : orm.values[j].accession = orm.values[i].accession

FlushInserts(tables, orm) ==
    [valuesets |-> tables.valuesets \cup {orm.row},
     valueset_values |-> tables.valueset_values \cup
        {[orm.values[i] EXCEPT !.valueset = orm.row.accession] : i \in 1..Len(orm.values)}]

\* A health check that lets the failure of its query through.
HealthCheckUncaught(outcome) ==
    IF outcome = "ok" THEN [status |-> "ok", healthy |-> <<TRUE>>]
    ELSE [status |-> "raised", healthy |-> <<>>]

\* health_check; outcome is how session.execute(select(1)) ends: "ok", or
\* the exception it raises.
health_check(outcome) ==
    IF outcome = "ok" THEN [status |-> "ok", healthy |-> <<TRUE>>]
    ELSE [status |-> "ok", healthy |-> <<FALSE>>]

(***************************************************************************)
(* app/dependencies.py                                                     *)
(***************************************************************************)
\* ValueSetValue(**term_dict): the dumped fields validated again.
Revalidate(term_dict) ==
    [term_dict EXCEPT !.pURL = IF @ = None THEN None ELSE HttpUrl(@),
                      !.identical_terms = [i \in 1..Len(@) |-> HttpUrl(@[i])],
                      !.similar_terms = [i \in 1..Len(@) |-> HttpUrl(@[i])]]

\* An enrichment that writes the generated pURL over a present one.
EnrichAlways(term) == Revalidate([term EXCEPT !.pURL = generate_purl_term(term.accession)])

\* An enrichment that leaves every term as it is.
EnrichNever(term) == term

enrich_term_with_purl(term) ==
    IF term.pURL = None
    THEN Revalidate([term EXCEPT !.pURL = generate_purl_term(term.accession)])
    ELSE term

(***************************************************************************)
(* app/routers: what each endpoint answers, [status, body].  An exception  *)
(* that leaves a handler is answered with 500.                             *)
(***************************************************************************)
HttpResponse(status, body) == [status |-> status, body |-> body]

\* A handler that answers a missing term like an unhandled error.
TermNotFoundAsError(tables, accession) ==
    LET term == get_term(tables, accession)
    IN  IF term.status = "ok" THEN HttpResponse(200, <<enrich_term_with_purl(term.term[1])>>)
        ELSE HttpResponse(500, <<>>)

\* GET /term/{accession}
router_get_term(tables, accession) ==
    LET term == get_term(tables, accession)
    IN  CASE term.status = "none" -> HttpResponse(404, <<>>)
          [] term.status = "raised" -> HttpResponse(500, <<>>)
          [] OTHER -> HttpResponse(200, <<enrich_term_with_purl(term.term[1])>>)

\* GET /list/valuesets
router_list_valuesets(tables) == HttpResponse(200, list_valuesets(tables))

\* GET /list/valuesets/{namespace}; the deprecated query parameter defaults
\* to False.
router_get_valueset(tables, namespace, deprecated, load_order) ==
    LET got == get_valueset(tables, namespace, deprecated, load_order)
        vs == got.valueset[1]
        values == [i \in 1..Len(vs.values) |-> enrich_term_with_purl(vs.values[i])]
    IN  CASE got.status = "none" -> HttpResponse(404, <<>>)
          [] got.status = "raised" -> HttpResponse(500, <<>>)
          [] OTHER ->
               HttpResponse(200,
                   << [vs EXCEPT !.values = values,
                                 !.pURL = IF vs.pURL \in {None, ""}
                                          THEN HttpUrl(generate_purl_valueset(vs.accession))
                                          ELSE @] >>)

\* GET /health
router_health_check(outcome) ==
    LET db_healthy == health_check(outcome)
    IN  CASE db_healthy.status = "raised" -> HttpResponse(500, <<>>)
          [] db_healthy.status = "ok" /\ db_healthy.healthy = <<FALSE>> ->
               HttpResponse(503, <<[status |-> "unhealthy"]>>)
          [] OTHER -> HttpResponse(200, <<[status |-> "healthy"]>>)

(***************************************************************************)
(* The state machine.  One loader process runs ingest_csv calls one after  *)
(* the other, each in its own session; the API's read operations run       *)
(* between the calls, on the committed store.                              *)
(***************************************************************************)
Stems == {"vsA"}

\* <<valueset_accession, definition, full_definition>> as the caller gives them
IngestArgs ==
    { <<None, None, None>>,
      <<"vsB", None, None>>,
      <<"vsB", "Given definition", "Given full definition">> }

Namespaces == {"vsA", "vsB", "vsC"}

\* The accessions GET /term is asked for; no file stores t4.
TermAccessions == {"t1", "t2", "t4"}

\* How the query of a health check ends.
QueryOutcomes == {"ok", "OperationalError", "InterfaceError"}

\* No loader processes beside the one of the state machine.
NoWorkers == [proc |-> <<>>, lock |-> None, commits |-> <<>>]

\* No run of the command yet.
NoCli == [mode |-> "none", run |-> 0]

NoCall ==
    [csv_path |-> [stem |-> None, file |-> UnreadableFile],
     valueset_accession |-> None, definition |-> None, full_definition |-> None]

NoSession == [open |-> FALSE, tables |-> EmptyTables]

NoResp ==
    [op |-> "none", namespace |-> None, accession |-> None, include_deprecated |-> <<>>,
     outcome |-> None, result |-> <<>>, http |-> HttpResponse(0, <<>>)]

\* The include_deprecated argument: omitted, or given.
FlagArgs == {<<>>, <<TRUE>>, <<FALSE>>}

\* ingest_csv's defaults: the accession, and the metadata handed to the loader.
AccessionOf(c) == IF c.valueset_accession = None THEN c.csv_path.stem ELSE c.valueset_accession

MetadataOf(c) ==
    [definition |-> IF c.definition = None THEN "ValueSet: " \o AccessionOf(c) ELSE c.definition,
     full_definition |-> IF c.full_definition = None
                         THEN "Full definition for " \o AccessionOf(c) ELSE c.full_definition]

Init ==
    /\ db = EmptyTables
    /\ tx = NoSession
    /\ pending = <<>>
    /\ pc = "idle"
    /\ call = NoCall
    /\ valueset = <<>>
    /\ raised = NoError
    /\ pre = EmptyTables
    /\ resp = NoResp
    /\ cli = NoCli
    /\ workers = NoWorkers

\* ingest_csv up to the session's creation: defaults, load_valueset_from_csv
\* (an error there propagates to the caller), then _get_session().
IngestCsv(stem, file, valueset_accession, definition, full_definition) ==
    LET c == [csv_path |-> [stem |-> stem, file |-> file],
              valueset_accession |-> valueset_accession,
              definition |-> definition, full_definition |-> full_definition]
        loaded == load_valueset_from_csv(file, AccessionOf(c), MetadataOf(c))
    IN  /\ pc = "idle"
        /\ call' = c
        /\ pre' = db
        /\ resp' = NoResp
        /\ raised' = loaded.error
        /\ valueset' = loaded.valueset
        /\ IF loaded.error = NoError
           THEN /\ tx' = [open |-> TRUE, tables |-> db]
                /\ pc' = "insert"
           ELSE /\ tx' = tx
                /\ pc' = "done"
        /\ UNCHANGED <<db, pending, cli, workers>>

\* insert_valueset: delete-and-flush of an existing vocabulary, then
\* session.add of the new objects.
InsertValueset ==
    /\ pc = "insert"
    /\ tx' = [tx EXCEPT !.tables = DeleteExisting(tx.tables, valueset[1].accession)]
    /\ pending' = <<ValueSetOrm(valueset[1])>>
    /\ pc' = "commit"
    /\ UNCHANGED <<db, call, valueset, raised, pre, resp, cli, workers>>

\* insert_valueset raising a storage error: at session.get, or at the flush
\* with the deletes already sent to the database.
InsertValuesetFails ==
    /\ pc = "insert"
    /\ \E flushed \in BOOLEAN :
          tx' = [tx EXCEPT !.tables = IF flushed THEN DeleteExisting(tx.tables, valueset[1].accession)
                                      ELSE tx.tables]
    /\ raised' = Exception("OperationalError", "insert_valueset")
    /\ pc' = "rollback"
    /\ UNCHANGED <<db, pending, call, valueset, pre, resp, cli, workers>>

\* The rows a commit after every INSERT leaves behind when one of them fails.
InsertedBeforeConflict(tables, orm) ==
    LET conflicts == {i \in 1..Len(orm.values) :
                        \/ \E v \in tables.valueset_values : v.accession = orm.values[i].accession
                        \/ \E j \in 1..(i - 1) : orm.values[j].accession = orm.values[i].accession}
        first == IF conflicts = {} THEN Len(orm.values) + 1
                 ELSE CHOOSE i \in conflicts : \A j \in conflicts : i <= j
    IN  IF \E vs \in tables.valuesets : vs.accession = orm.row.accession THEN tables
        ELSE FlushInserts(tables, [orm EXCEPT !.values = SubSeq(orm.values, 1, first - 1)])

\* A commit per row instead of one per file.
CommitPerRow ==
    /\ pc = "commit"
    /\ IF PrimaryKeyConflict(tx.tables, pending[1])
       THEN /\ raised' = Exception("IntegrityError", "commit")
            /\ pc' = "rollback"
            /\ db' = InsertedBeforeConflict(tx.tables, pending[1])
            /\ tx' = [tx EXCEPT !.tables = InsertedBeforeConflict(tx.tables, pending[1])]
            /\ UNCHANGED pending
       ELSE /\ db' = FlushInserts(tx.tables, pending[1])
            /\ tx' = [tx EXCEPT !.tables = FlushInserts(tx.tables, pending[1])]
            /\ pending' = <<>>
            /\ pc' = "close"
            /\ UNCHANGED raised
    /\ UNCHANGED <<call, valueset, pre, resp, cli, workers>>

\* session.commit(): the flush of the pending INSERTs, then COMMIT.
Commit ==
    /\ pc = "commit"
    /\ IF PrimaryKeyConflict(tx.tables, pending[1])
       THEN /\ raised' = Exception("IntegrityError", "commit")
            /\ pc' = "rollback"
            /\ UNCHANGED <<db, tx, pending>>
       ELSE /\ db' = FlushInserts(tx.tables, pending[1])
            /\ tx' = [tx EXCEPT !.tables = FlushInserts(tx.tables, pending[1])]
            /\ pending' = <<>>
            /\ pc' = "close"
            /\ UNCHANGED raised
    /\ UNCHANGED <<call, valueset, pre, resp, cli, workers>>

\* session.commit() raising a storage error.
CommitFails ==
    /\ pc = "commit"
    /\ raised' = Exception("OperationalError", "commit")
    /\ pc' = "rollback"
    /\ UNCHANGED <<db, tx, pending, call, valueset, pre, resp, cli, workers>>

\* An except branch that makes the flushed statements durable.
RollbackKeepsFlushed ==
    /\ pc = "rollback"
    /\ db' = tx.tables
    /\ pending' = <<>>
    /\ pc' = "close"
    /\ UNCHANGED <<tx, call, valueset, raised, pre, resp, cli, workers>>

\* except Exception: session.rollback(); raise
Rollback ==
    /\ pc = "rollback"
    /\ tx' = [tx EXCEPT !.tables = db]
    /\ pending' = <<>>
    /\ pc' = "close"
    /\ UNCHANGED <<db, call, valueset, raised, pre, resp, cli, workers>>

\* finally: session.close()
SessionClose ==
    /\ pc = "close"
    /\ tx' = NoSession
    /\ pc' = "done"
    /\ UNCHANGED <<db, pending, call, valueset, raised, pre, resp, cli, workers>>

\* The call is over: the caller goes on, the call's frame is dropped.
LoaderReturns ==
    /\ pc = "done"
    /\ pc' = "idle"
    /\ call' = NoCall
    /\ valueset' = <<>>
    /\ raised' = NoError
    /\ pre' = db
    /\ UNCHANGED <<db, tx, pending, resp, cli, workers>>

\* A request for a vocabulary: GET /list/valuesets/{namespace}, and the
\* get_valueset call it makes; an omitted flag defaults to False.
GetValueset(namespace, flag) ==
    /\ pc = "idle"
    /\ \E load_order \in Perms(ValuesOf(db, namespace)) :
          resp' = [NoResp EXCEPT
                     !.op = "get_valueset", !.namespace = namespace, !.include_deprecated = flag,
                     !.result = get_valueset(db, namespace, IF flag = <<>> THEN FALSE ELSE flag[1], load_order),
                     !.http = router_get_valueset(db, namespace, IF flag = <<>> THEN FALSE ELSE flag[1], load_order)]
    /\ UNCHANGED <<db, tx, pending, pc, call, valueset, raised, pre, cli, workers>>

\* GET /list/valuesets, and the list_valuesets call it makes.
ListValuesets ==
    /\ pc = "idle"
    /\ resp' = [NoResp EXCEPT !.op = "list_valuesets", !.result = list_valuesets(db),
                              !.http = router_list_valuesets(db)]
    /\ UNCHANGED <<db, tx, pending, pc, call, valueset, raised, pre, cli, workers>>

\* A term lookup that stores the pURL it generated in the term's row.
GetTermStoringPurl(accession) ==
    /\ pc = "idle"
    /\ resp' = [NoResp EXCEPT !.op = "get_term", !.accession = accession,
                              !.result = get_term(db, accession),
                              !.http = router_get_term(db, accession)]
    /\ db' = [db EXCEPT !.valueset_values =
                 {IF v.accession = accession /\ v.purl = None
                  THEN [v EXCEPT !.purl = generate_purl_term(accession)] ELSE v : v \in @}]
    /\ UNCHANGED <<tx, pending, pc, call, valueset, raised, pre, cli, workers>>

\* GET /term/{accession}, and the get_term call it makes.
GetTerm(accession) ==
    /\ pc = "idle"
    /\ resp' = [NoResp EXCEPT !.op = "get_term", !.accession = accession,
                              !.result = get_term(db, accession),
                              !.http = router_get_term(db, accession)]
    /\ UNCHANGED <<db, tx, pending, pc, call, valueset, raised, pre, cli, workers>>

\* GET /health, and the health_check call it makes.
HealthCheck(outcome) ==
    /\ pc = "idle"
    /\ resp' = [NoResp EXCEPT !.op = "health_check", !.outcome = outcome,
                              !.result = health_check(outcome),
                              !.http = router_health_check(outcome)]
    /\ UNCHANGED <<db, tx, pending, pc, call, valueset, raised, pre, cli, workers>>

Next ==
    \/ \E stem \in Stems, file \in CsvFiles, args \in IngestArgs :
          IngestCsv(stem, file, args[1], args[2], args[3])
    \/ InsertValueset
    \/ InsertValuesetFails
    \/ Commit
    \/ CommitFails
    \/ Rollback
    \/ SessionClose
    \/ LoaderReturns
    \/ \E namespace \in Namespaces, flag \in FlagArgs : GetValueset(namespace, flag)
    \/ ListValuesets
    \/ \E accession \in TermAccessions : GetTerm(accession)
    \/ \E outcome \in QueryOutcomes : HealthCheck(outcome)

Spec == Init /\ [][Next]_vars

(***************************************************************************)
(* The ingest-csv command (ingestion/cli.py).  A run of the command is one *)
(* process: it resolves the metadata, runs ingest_csv or ingest_directory  *)
(* to the end and exits.  Runs follow each other on the same database.     *)
(***************************************************************************)
MaxRuns == 2          \* runs of the command on one database

\* Python's "a or b" on optional strings: None and "" are both false.
Or(a, b) == IF a \notin {None, ""} THEN a ELSE b

\* A resolution that asks the YAML file before the command line.
PrecedenceYamlFirst(cli_arg, yaml_value, default) == Or(yaml_value, Or(cli_arg, default))

\* Precedence: CLI Arg > YAML File > Hardcoded Default
Precedence(cli_arg, yaml_value, default) == Or(cli_arg, Or(yaml_value, default))

\* The parsed YAML file: <<accession, key, text>> for every key of every
\* entry.  DatasetMetadata is yaml_metadata.get(accession, {}), and
\* MetadataGet is dataset_metadata.get(key).
DatasetMetadata(yaml_metadata, accession) ==
    {<<e[2], e[3]>> : e \in {y \in yaml_metadata : y[1] = accession}}

MetadataGet(dataset_metadata, key) ==
    IF \E e \in dataset_metadata : e[1] = key
    THEN (CHOOSE e \in dataset_metadata : e[1] = key)[2]
    ELSE None

\* The part of ingest_csv after load_valueset_from_csv returned `loaded`:
\* the session, insert_valueset, the commit, and the rollback on an error.
InsertAndCommit(tables, loaded, fault) ==
    LET deleted == DeleteExisting(tables, loaded.valueset[1].accession)
        orm == ValueSetOrm(loaded.valueset[1])
    IN  IF loaded.error # NoError
        THEN [raised |-> loaded.error, tables |-> tables, valueset |-> <<>>]
        ELSE IF fault
        THEN [raised |-> Exception("OperationalError", "commit"), tables |-> tables,
              valueset |-> loaded.valueset]
        ELSE IF PrimaryKeyConflict(deleted, orm)
        THEN [raised |-> Exception("IntegrityError", "commit"), tables |-> tables,
              valueset |-> loaded.valueset]
        ELSE [raised |-> NoError, tables |-> FlushInserts(deleted, orm),
              valueset |-> loaded.valueset]

\* ingest_csv from call to return: [raised, tables, valueset].  fault says
\* whether the commit meets a storage error.
ingest_csv(tables, csv_path, valueset_accession, definition, full_definition, fault) ==
    LET c == [csv_path |-> csv_path, valueset_accession |-> valueset_accession,
              definition |-> definition, full_definition |-> full_definition]
    IN  InsertAndCommit(tables,
                        load_valueset_from_csv(csv_path.file, AccessionOf(c), MetadataOf(c)),
                        fault)

\* The call ingest_directory makes for one file.
IngestFile(tables, csv_file, yaml_metadata, faults) ==
    LET dataset_metadata == DatasetMetadata(yaml_metadata, csv_file.stem)
    IN  ingest_csv(tables, csv_file, csv_file.stem,
                   MetadataGet(dataset_metadata, "definition"),
                   MetadataGet(dataset_metadata, "full_definition"),
                   csv_file.stem \in faults)

\* What ingest_directory logs for a file: the file and what ingest_csv raised.
LogEntry(csv_file, done) == [csv_file |-> csv_file, raised |-> done.raised]

\* A directory ingestion that stops at the first file that fails, and raises.
RECURSIVE IngestDirectoryFailFast(_, _, _, _)
FailFastLoop(done, csv_files, yaml_metadata, faults) ==
    LET rest == IngestDirectoryFailFast(done.tables, Tail(csv_files), yaml_metadata, faults)
    IN  IF done.raised # NoError
        THEN [raised |-> done.raised, tables |-> done.tables,
              log |-> <<LogEntry(Head(csv_files), done)>>]
        ELSE [raised |-> rest.raised, tables |-> rest.tables,
              log |-> <<LogEntry(Head(csv_files), done)>> \o rest.log]

IngestDirectoryFailFast(tables, csv_files, yaml_metadata, faults) ==
    IF csv_files = <<>> THEN [raised |-> NoError, tables |-> tables, log |-> <<>>]
    ELSE FailFastLoop(IngestFile(tables, Head(csv_files), yaml_metadata, faults),
                      csv_files, yaml_metadata, faults)

\* ingest_directory over the files in the order glob gives them:
\* [raised, tables, log].  DirectoryLoop is the loop body after the file's
\* ingest_csv ended as `done`: the exception is logged, the loop goes on.
RECURSIVE ingest_directory(_, _, _, _)
DirectoryLoop(done, csv_files, yaml_metadata, faults) ==
    LET rest == ingest_directory(done.tables, Tail(csv_files), yaml_metadata, faults)
    IN  [raised |-> NoError, tables |-> rest.tables,
         log |-> <<LogEntry(Head(csv_files), done)>> \o rest.log]

ingest_directory(tables, csv_files, yaml_metadata, faults) ==
    IF csv_files = <<>> THEN [raised |-> NoError, tables |-> tables, log |-> <<>>]
    ELSE DirectoryLoop(IngestFile(tables, Head(csv_files), yaml_metadata, faults),
                       csv_files, yaml_metadata, faults)

\* The files the command is run on.  FileTerms has a term with every
\* JSON-valued column in use.
CliRow(header, r) == [c \in header |-> IF c \in DOMAIN r THEN r[c] ELSE "value1"]

RowT1 == CsvRow("t1", "Gamma", "", "", "")

RowT2 ==
    [CsvRow("t2", "Alpha", "https://example.org/t2", "TRUE", "[ \"t1\" ]")
        EXCEPT !.identical_terms = "[\"http://x\"]", !.additional = "{\"icd10\": \"E11\"}"]

RowT3 == CsvRow("t3", "Beta", "", "no", "{oops")

FileOne == [readable |-> TRUE, header |-> HeaderFull, rows |-> <<CliRow(HeaderFull, RowT1)>>]

FileTerms ==
    [readable |-> TRUE, header |-> HeaderFull,
     rows |-> <<CliRow(HeaderFull, RowT2), CliRow(HeaderFull, RowT3)>>]

FileClash ==
    [readable |-> TRUE, header |-> HeaderFull,
     rows |-> <<CliRow(HeaderFull, RowT1), CliRow(HeaderFull, RowT3)>>]

FileMalformed ==
    [readable |-> TRUE, header |-> HeaderNoLabel, rows |-> <<CliRow(HeaderNoLabel, RowT1)>>]

CsvPath(stem, file) == [stem |-> stem, file |-> file]

\* csv_file, for the single-file mode
CliCsvFiles == {CsvPath("vsA", f) : f \in {FileOne, FileTerms, FileMalformed}}

\* --directory: the *.csv files of the directory
DirThree == {CsvPath("vsA", FileOne), CsvPath("vsB", FileMalformed), CsvPath("vsC", FileTerms)}

DirClash == {CsvPath("vsA", FileOne), CsvPath("vsB", FileClash)}

Directories == {DirThree, DirClash, {}}

\* --accession
CliAccessions == {None, "vsB"}

\* <<--definition, --full-definition>>
CliMetadataArgs ==
    { <<None, None>>,
      <<"CLI definition", None>>,
      <<"", "CLI full definition">> }

\* --metadata: no file, or a YAML file
YamlFile ==
    { <<"vsA", "definition", "YAML definition">>,
      <<"vsA", "full_definition", "YAML full definition">>,
      <<"vsB", "definition", "YAML definition">>,
      <<"vsC", "definition", "">>,
      <<"vsC", "full_definition", "YAML full definition">> }

YamlFiles == {{}, YamlFile}

\* The files whose commit meets a storage error.
Faults == {{}, {"vsA"}}

\* main() with a csv_file: the metadata is resolved, ingest_csv runs, and an
\* exception ends the process with exit code 1.
MainSingleFile(csv_file, accession_arg, definition_arg, full_definition_arg, yaml_metadata, fault) ==
    LET accession == Or(accession_arg, csv_file.stem)
        dataset_metadata == DatasetMetadata(yaml_metadata, accession)
        definition == Precedence(definition_arg, MetadataGet(dataset_metadata, "definition"),
                                 "ValueSet: " \o accession)
        full_definition == Precedence(full_definition_arg,
                                      MetadataGet(dataset_metadata, "full_definition"),
                                      "Full definition for " \o accession)
    IN  /\ pc = "idle"
        /\ cli.run < MaxRuns
        /\ \E done \in {ingest_csv(db, csv_file, accession, definition, full_definition, fault)} :
              /\ db' = done.tables
              /\ pre' = db
              /\ call' = [csv_path |-> csv_file, valueset_accession |-> accession,
                          definition |-> definition, full_definition |-> full_definition]
              /\ valueset' = done.valueset
              /\ raised' = done.raised
              /\ cli' = [mode |-> "file", run |-> cli.run + 1,
                         csv_file |-> <<csv_file>>, directory |-> <<>>,
                         accession |-> accession_arg, definition |-> definition_arg,
                         full_definition |-> full_definition_arg, metadata |-> yaml_metadata,
                         log |-> <<>>,
                         exit_code |-> IF done.raised # NoError THEN 1 ELSE 0]
        /\ UNCHANGED <<tx, pending, pc, resp, workers>>

\* main() with --directory: ingest_directory gets the directory and the YAML
\* metadata; csv_files is the directory in the order glob lists it.
MainDirectory(csv_files, definition_arg, full_definition_arg, yaml_metadata, faults) ==
    /\ pc = "idle"
    /\ cli.run < MaxRuns
    /\ \E done \in {ingest_directory(db, csv_files, yaml_metadata, faults)} :
          /\ db' = done.tables
          /\ pre' = db
          /\ call' = NoCall
          /\ valueset' = <<>>
          /\ raised' = done.raised
          /\ cli' = [mode |-> "directory", run |-> cli.run + 1,
                     csv_file |-> <<>>, directory |-> csv_files,
                     accession |-> None, definition |-> definition_arg,
                     full_definition |-> full_definition_arg, metadata |-> yaml_metadata,
                     log |-> done.log,
                     exit_code |-> IF done.raised # NoError THEN 1 ELSE 0]
    /\ UNCHANGED <<tx, pending, pc, resp, workers>>

\* What the command line names: csv_file or --directory, and what is at the
\* path; --metadata, not given or what is at its path.
InputArguments == {"csv_file", "directory"}

InputPaths == {"file", "directory", "missing"}

MetadataPaths == {"none", "yaml", "missing", "unloadable"}

\* Input checks that look at nothing: every path is taken as given.
InputChecksNone(argument, input_path, metadata_path) == None

\* The checks of main() before the loader is created, in the code's order:
\* the message of the check that ends the run, or None when all pass.
InputChecks(argument, input_path, metadata_path) ==
    IF metadata_path = "missing" THEN "Metadata file not found"
    ELSE IF metadata_path = "unloadable" THEN "Failed to load YAML metadata"
    ELSE IF argument = "csv_file" /\ input_path = "missing" THEN "CSV file not found"
    ELSE IF argument = "csv_file" /\ input_path # "file" THEN "Path is not a file"
    ELSE IF argument = "directory" /\ input_path = "missing" THEN "Directory not found"
    ELSE IF argument = "directory" /\ input_path # "directory" THEN "Path is not a directory"
    ELSE None

\* The command lines with a path that is not what its argument needs.
BadInputs ==
    {i \in InputArguments \X InputPaths \X MetadataPaths :
        \/ i[3] \in {"missing", "unloadable"}
        \/ i[1] = "csv_file" /\ i[2] # "file"
        \/ i[1] = "directory" /\ i[2] # "directory"}

\* main() on such a command line.  A check that fails ends the process with
\* sys.exit(1) before CSVLoader is created.  Past the checks the loader is
\* created (and with it the database file and its tables); open() of a path
\* that is no file raises inside ingest_csv and the process exits with 1,
\* while the glob of a path that is no directory lists nothing and the run
\* ends with 0.
MainBadInput(argument, input_path, metadata_path) ==
    /\ pc = "idle"
    /\ cli.run < MaxRuns
    /\ <<argument, input_path, metadata_path>> \in BadInputs
    /\ \E error \in {InputChecks(argument, input_path, metadata_path)} :
          cli' = [mode |-> "bad-input", run |-> cli.run + 1,
                  argument |-> argument, input_path |-> input_path,
                  metadata_path |-> metadata_path,
                  error |-> error,
                  loader |-> (error = None),
                  exit_code |-> IF error = None /\ argument = "directory" THEN 0 ELSE 1]
    /\ pre' = db
    /\ call' = NoCall
    /\ valueset' = <<>>
    /\ raised' = NoError
    /\ UNCHANGED <<db, tx, pending, pc, resp, workers>>

NextCli ==
    \/ \E csv_file \in CliCsvFiles, accession_arg \in CliAccessions, args \in CliMetadataArgs,
          yaml_metadata \in YamlFiles, fault \in BOOLEAN :
          MainSingleFile(csv_file, accession_arg, args[1], args[2], yaml_metadata, fault)
    \/ \E directory \in Directories, args \in CliMetadataArgs, yaml_metadata \in YamlFiles,
          faults \in Faults :
          \E csv_files \in Perms(directory) :
             MainDirectory(csv_files, args[1], args[2], yaml_metadata, faults)
    \/ \E i \in BadInputs : MainBadInput(i[1], i[2], i[3])

SpecCli == Init /\ [][NextCli]_vars

(***************************************************************************)
(* Reads of a database whose JSON columns hold any text: the file is       *)
(* SQLite's, and the columns are plain TEXT.  The store is what an ingest  *)
(* of FileOne leaves, with the JSON columns of its term row overwritten.   *)
(***************************************************************************)
StoredTexts ==
    {None, "", "{oops", "5", "{}", "[\"t1\"]", "[\"http://x/\"]", "{\"icd10\": \"E11\"}"}

IngestedOnce == ingest_csv(EmptyTables, CsvPath("vsA", FileOne), None, None, None, FALSE).tables

StoredTables(identical_terms, deprecated_to, additional) ==
    [IngestedOnce EXCEPT !.valueset_values =
        {[v EXCEPT !.identical_terms = identical_terms,
                   !.deprecated_to = deprecated_to,
                   !.additional = additional] : v \in @}]

InitStored ==
    /\ \E identical_terms \in StoredTexts, deprecated_to \in StoredTexts, additional \in StoredTexts :
          db = StoredTables(identical_terms, deprecated_to, additional)
    /\ tx = NoSession
    /\ pending = <<>>
    /\ pc = "idle"
    /\ call = NoCall
    /\ valueset = <<>>
    /\ raised = NoError
    /\ pre = EmptyTables
    /\ resp = NoResp
    /\ cli = NoCli
    /\ workers = NoWorkers

NextRead ==
    \/ \E namespace \in Namespaces, flag \in FlagArgs : GetValueset(namespace, flag)
    \/ ListValuesets
    \/ \E accession \in TermAccessions : GetTerm(accession)
    \/ \E outcome \in QueryOutcomes : HealthCheck(outcome)

SpecStored == InitStored /\ [][NextRead]_vars

(***************************************************************************)
(* One ingest_csv call of a new loader on an empty database, from call to  *)
(* return, over files that are longer or richer in their cells than the    *)
(* files of the state machine above.                                       *)
(***************************************************************************)
MaxScanRows == 12     \* data rows of a long file

\* A row that validates, and one whose pURL does not.
GoodRow(i) == CsvRow("r" \o ToString(i), "Label", "", "", "")

BadRow(i) == CsvRow("r" \o ToString(i), "Label", "not a url", "", "")

\* A file of n rows of which the rows in failing do not validate.
LongFile(n, failing) ==
    [readable |-> TRUE, header |-> HeaderFull,
     rows |-> [i \in 1..n |-> IF i \in failing THEN BadRow(i) ELSE GoodRow(i)]]

\* The sets of failing rows tried for a file of n rows: up to two rows
\* anywhere, and all rows or all but one.
FailingSets(n) ==
    {failing \in SUBSET (1..n) :
        Cardinality(failing) <= 2 \/ Cardinality((1..n) \ failing) <= 1}

LongFiles == UNION { {LongFile(n, failing) : failing \in FailingSets(n)} : n \in 1..MaxScanRows }

\* The cell texts of the JSON columns: empty, missing (csv.DictReader gives
\* None for a cell the line is too short for), not JSON, and JSON.
UrlCells == {"", None, "{oops", "[\"http://x\"]"}

DeprecatedToCells == {"", None, "{oops", "[\"t1\"]"}

AdditionalCells == {"", None, "{oops", "{\"icd10\": \"E11\"}", "5"}

DeprecatedCells == {"", "TRUE"}

CellRow(identical_terms, similar_terms, deprecated_to, additional, deprecated) ==
    [CsvRow("t1", "Gamma", "", deprecated, deprecated_to)
        EXCEPT !.identical_terms = identical_terms, !.similar_terms = similar_terms,
               !.additional = additional]

\* One-row files, with the full header and with the header that lacks three
\* of the JSON columns.
CellFiles ==
    { [readable |-> TRUE, header |-> h, rows |-> <<CliRow(h, CellRow(it, st, dt, ad, d))>>] :
        h \in {HeaderFull, HeaderShort}, it \in UrlCells, st \in UrlCells,
        dt \in DeprecatedToCells, ad \in AdditionalCells, d \in DeprecatedCells }

LoaderFiles == LongFiles \cup CellFiles

\* loader.ingest_csv(csv_path) with the defaults for accession and metadata.
IngestCsvCall(file) ==
    /\ pc = "idle"
    /\ \E done \in {ingest_csv(db, CsvPath("vsA", file), None, None, None, FALSE)} :
          /\ db' = done.tables
          /\ valueset' = done.valueset
          /\ raised' = done.raised
    /\ pre' = db
    /\ call' = [csv_path |-> CsvPath("vsA", file), valueset_accession |-> None,
                definition |-> None, full_definition |-> None]
    /\ pc' = "done"
    /\ UNCHANGED <<tx, pending, resp, cli, workers>>

\* The caller runs the same call again after it returned: same file, same
\* accession, same metadata.
IngestCsvAgain ==
    /\ pc = "done"
    /\ raised = NoError
    /\ \E done \in {ingest_csv(db, call.csv_path, call.valueset_accession,
                                call.definition, call.full_definition, FALSE)} :
          /\ db' = done.tables
          /\ valueset' = done.valueset
          /\ raised' = done.raised
    /\ pre' = db
    /\ pc' = "again"
    /\ UNCHANGED <<tx, pending, call, resp, cli, workers>>

NextLoader ==
    \/ \E file \in LoaderFiles : IngestCsvCall(file)
    \/ IngestCsvAgain

SpecLoader == Init /\ [][NextLoader]_vars

(***************************************************************************)
(* Two loader processes ingest under the same accession at the same time,  *)
(* each with its own engine and session on the same SQLite file.  A        *)
(* session's SELECTs run outside a transaction and read the committed      *)
(* store; the first DELETE or INSERT of a flush begins the transaction and *)
(* takes the database's write lock, which is held until COMMIT or          *)
(* ROLLBACK.  A process that needs the lock while the other holds it waits *)
(* for it, and gives up with "database is locked" when the wait times out. *)
(***************************************************************************)
Procs == {"A", "B"}

ConcurrentFile(accessions) ==
    [readable |-> TRUE, header |-> HeaderFull,
     rows |-> [i \in 1..Len(accessions) |-> CsvRow(accessions[i], "Label", "", "", "")]]

\* The files the two processes ingest, and the stores they start on: the
\* empty one, and what an earlier ingest of one of the files left.
WorkerFiles ==
    {ConcurrentFile(<<"t1">>), ConcurrentFile(<<"t2">>), ConcurrentFile(<<"t3">>),
     ConcurrentFile(<<"t2", "t3">>)}

InitialStores ==
    {EmptyTables} \cup
    {ingest_csv(EmptyTables, CsvPath("vsA", f), None, None, None, FALSE).tables : f \in WorkerFiles}

\* A process at the start of loader.ingest_csv(csv_path).
WorkerAt(file) ==
    [pc |-> "start", csv_path |-> CsvPath("vsA", file), valueset |-> <<>>,
     existing |-> FALSE, children |-> {}, tables |-> EmptyTables, raised |-> NoError]

InitConcurrent ==
    /\ db \in InitialStores
    /\ pre = db
    /\ \E a \in WorkerFiles, b \in WorkerFiles :
          workers = [proc |-> [p \in Procs |-> WorkerAt(IF p = "A" THEN a ELSE b)],
                     lock |-> None, commits |-> <<>>]
    /\ tx = NoSession
    /\ pending = <<>>
    /\ pc = "idle"
    /\ call = NoCall
    /\ valueset = <<>>
    /\ raised = NoError
    /\ resp = NoResp
    /\ cli = NoCli

\* The DELETE statements the flush emits for the objects the session
\* loaded, each by primary key: the term rows of the collection, then the
\* vocabulary row.  A DELETE that matches no row is a warning, not an error.
DeleteLoaded(tables, accession, children) ==
    [valuesets |-> {vs \in tables.valuesets : vs.accession # accession},
     valueset_values |-> {v \in tables.valueset_values :
                            \A c \in children : c.accession # v.accession}]

\* ingest_csv up to session.get in insert_valueset: the file is loaded,
\* the session is created and the SELECT for the vocabulary row runs.
SessionGet(p) ==
    LET w == workers.proc[p]
        c == [csv_path |-> w.csv_path, valueset_accession |-> None,
              definition |-> None, full_definition |-> None]
        loaded == load_valueset_from_csv(w.csv_path.file, AccessionOf(c), MetadataOf(c))
        existing == \E vs \in db.valuesets : vs.accession = AccessionOf(c)
    IN  /\ w.pc = "start"
        /\ workers' = [workers EXCEPT !.proc[p] =
                          [w EXCEPT !.valueset = loaded.valueset,
                                    !.raised = loaded.error,
                                    !.existing = existing,
                                    !.pc = IF loaded.error # NoError THEN "done"
                                           ELSE IF existing THEN "delete"
                                           ELSE "commit"]]
        /\ UNCHANGED <<db, tx, pending, pc, call, valueset, raised, pre, resp, cli>>

\* session.delete(existing): the delete cascade loads the vocabulary's
\* collection of terms with a SELECT.
SessionDelete(p) ==
    LET w == workers.proc[p]
    IN  /\ w.pc = "delete"
        /\ workers' = [workers EXCEPT !.proc[p] =
                          [w EXCEPT !.children = ValuesOf(db, w.valueset[1].accession),
                                    !.pc = "flush"]]
        /\ UNCHANGED <<db, tx, pending, pc, call, valueset, raised, pre, resp, cli>>

\* session.flush(): BEGIN, and the DELETEs for the loaded objects.
SessionFlush(p) ==
    LET w == workers.proc[p]
    IN  /\ w.pc = "flush"
        /\ workers.lock = None
        /\ workers' = [workers EXCEPT
                          !.lock = p,
                          !.proc[p] = [w EXCEPT !.tables = DeleteLoaded(db, w.valueset[1].accession,
                                                                       w.children),
                                                !.pc = "commit"]]
        /\ UNCHANGED <<db, tx, pending, pc, call, valueset, raised, pre, resp, cli>>

\* session.add(vs_orm); session.commit(): the flush of the INSERTs, in the
\* transaction the DELETEs began or in a new one, and COMMIT; an
\* IntegrityError rolls the transaction back.  The lock is released.
SessionCommit(p) ==
    LET w == workers.proc[p]
        base == IF workers.lock = p THEN w.tables ELSE db
        orm == ValueSetOrm(w.valueset[1])
    IN  /\ w.pc = "commit"
        /\ workers.lock \in {None, p}
        /\ IF PrimaryKeyConflict(base, orm)
           THEN /\ workers' = [workers EXCEPT
                                  !.lock = None,
                                  !.proc[p] = [w EXCEPT !.raised = Exception("IntegrityError", "commit"),
                                                        !.tables = db,
                                                        !.pc = "done"]]
                /\ UNCHANGED db
           ELSE /\ db' = FlushInserts(base, orm)
                /\ workers' = [workers EXCEPT
                                  !.lock = None,
                                  !.commits = Append(workers.commits, p),
                                  !.proc[p] = [w EXCEPT !.tables = FlushInserts(base, orm),
                                                        !.pc = "done"]]
        /\ UNCHANGED <<tx, pending, pc, call, valueset, raised, pre, resp, cli>>

\* The wait for the lock times out: OperationalError, rollback, raise.
LockTimeout(p) ==
    LET w == workers.proc[p]
    IN  /\ w.pc \in {"flush", "commit"}
        /\ workers.lock \notin {None, p}
        /\ workers' = [workers EXCEPT
                          !.proc[p] = [w EXCEPT !.raised = Exception("OperationalError",
                                                                     "database is locked"),
                                                !.pc = "done"]]
        /\ UNCHANGED <<db, tx, pending, pc, call, valueset, raised, pre, resp, cli>>

NextConcurrent ==
    \E p \in Procs :
        \/ SessionGet(p)
        \/ SessionDelete(p)
        \/ SessionFlush(p)
        \/ SessionCommit(p)
        \/ LockTimeout(p)

SpecConcurrent == InitConcurrent /\ [][NextConcurrent]_vars

(***************************************************************************)
(* The claims.                                                             *)
(***************************************************************************)
\* The accession and the file of the running (or last) ingest_csv call.
X == AccessionOf(call)

File == call.csv_path.file

Stored(tables, accession) == \E vs \in tables.valuesets : vs.accession = accession

HasRequiredColumns(file) == Range(required_columns) \subseteq file.header

\* What identifies a term, in a CSV row and in a stored row alike.
RowKey(r) == <<r.accession, r.label, r.value, r.definition, r.full_definition>>

FileKeys(file) == {RowKey(file.rows[i]) : i \in 1..Len(file.rows)}

StoredKeys(tables, accession) == {RowKey(v) : v \in ValuesOf(tables, accession)}

\* The vocabulary is stored once and its terms are exactly the file's rows.
HoldsFile(tables, accession, file) ==
    /\ HasRequiredColumns(file)
    /\ Cardinality({vs \in tables.valuesets : vs.accession = accession}) = 1
    /\ StoredKeys(tables, accession) = FileKeys(file)
    /\ Cardinality(ValuesOf(tables, accession)) = Len(file.rows)

StorageErrors == {"OperationalError", "IntegrityError"}

\* A successful ingest_csv under an accession that was stored before the call.
Reingested == pc = "done" /\ raised = NoError /\ Stored(pre, X)

\* C1: after a successful re-ingest under an accession that was already
\* stored, the terms stored for it are exactly the rows of the new file; no
\* term of the earlier file remains.
C1_ReingestReplaces ==
    Reingested =>
        /\ HoldsFile(db, X, File)
        /\ \A v \in ValuesOf(pre, X) :
              RowKey(v) \notin FileKeys(File) => v \notin db.valueset_values

C1_Witness ==
    /\ Reingested
    /\ \E v \in ValuesOf(pre, X) : RowKey(v) \notin FileKeys(File)
    /\ \E r \in FileKeys(File) : r \notin StoredKeys(pre, X)

\* C2: when insert_valueset or the commit fails, the session is rolled back,
\* the error is the one ingest_csv raises and the committed store is the
\* store before the call, old version of the accession included.
C2_RollbackRestores ==
    /\ pc = "rollback" => raised.type \in StorageErrors
    /\ (pc \in {"close", "done"} /\ raised.type \in StorageErrors) =>
          /\ db = pre
          /\ pending = <<>>
          /\ tx.tables = IF pc = "close" THEN pre ELSE EmptyTables

C2_Witness ==
    /\ pc = "done"
    /\ raised.type = "IntegrityError"
    /\ Stored(pre, X)
    /\ ValuesOf(pre, X) # {}
    /\ ValuesOf(db, X) = ValuesOf(pre, X)

\* C3: in every state the committed terms of the call's accession are
\* either what was stored before the call or exactly all rows of the file.
C3_AllOrNothing ==
    call # NoCall =>
        \/ /\ ValuesOf(db, X) = ValuesOf(pre, X)
           /\ Stored(db, X) = Stored(pre, X)
        \/ HoldsFile(db, X, File)

\* A failed call whose first row could have been inserted alone.
C3_Witness ==
    /\ pc = "done"
    /\ raised.type = "IntegrityError"
    /\ Len(File.rows) >= 2
    /\ \A v \in pre.valueset_values : v.accession # File.rows[1]["accession"]
    /\ db = pre

\* The file reaches row validation and one of its rows fails it.
HasInvalidRow(file, accession) ==
    /\ file.readable
    /\ file.rows # <<>>
    /\ HasRequiredColumns(file)
    /\ \E i \in 1..Len(file.rows) : ~ParseRow(file.rows[i], accession).ok

\* C4 as claimed: after an ingest of a file with an invalid row the database
\* holds no vocabulary row and no term row for the accession.
C4_NoRowsAfterwards ==
    (pc = "done" /\ HasInvalidRow(File, X)) =>
        /\ raised # NoError
        /\ ~Stored(db, X)
        /\ ValuesOf(db, X) = {}

\* C4 (amended): an ingest of a file with an invalid row fails for the whole
\* file and leaves the store as it was before the call; the database holds
\* no row for the accession afterwards if it held none before.
C4_InvalidRowFailsFile ==
    (pc = "done" /\ HasInvalidRow(File, X)) =>
        /\ raised.type = "ValueError"
        /\ raised.msg = "Failed to parse rows"
        /\ raised.count >= 1
        /\ db = pre
        /\ tx = NoSession
        /\ ~Stored(pre, X) => (~Stored(db, X) /\ ValuesOf(db, X) = {})

C4_Witness ==
    /\ pc = "done"
    /\ HasInvalidRow(File, X)
    /\ \E i \in 1..Len(File.rows) : ParseRow(File.rows[i], X).ok
    /\ raised.rows = <<3>>
    /\ ~Stored(db, X)

\* The terms get_valueset returned, and the rows it read them from.
RespValues == resp.result.valueset[1].values

Accessions(S) == {v.accession : v \in S}

\* C5: for a stored vocabulary with N terms of which K are deprecated,
\* get_valueset without the deprecated terms (the default too) returns
\* exactly the N-K terms that are not deprecated, and with them all N.
C5_DeprecatedFilter ==
    resp.op = "get_valueset" =>
        LET rows == {v \in db.valueset_values : v.valueset = resp.namespace}
            active == {v \in rows : v.deprecated = 0}
        IN  IF Stored(db, resp.namespace)
            THEN /\ resp.result.status = "ok"
                 /\ IF resp.include_deprecated = <<TRUE>>
                    THEN /\ Len(RespValues) = Cardinality(rows)
                         /\ Accessions(Range(RespValues)) = Accessions(rows)
                    ELSE /\ Len(RespValues) = Cardinality(rows) - Cardinality(rows \ active)
                         /\ Accessions(Range(RespValues)) = Accessions(active)
                         /\ \A v \in Range(RespValues) : ~v.deprecated
            ELSE resp.result.status = "none"

C5_Witness ==
    /\ resp.op = "get_valueset"
    /\ resp.include_deprecated = <<>>
    /\ resp.result.status = "ok"
    /\ Len(RespValues) = 1
    /\ Cardinality(ValuesOf(db, resp.namespace)) = 2

\* C6: the terms get_valueset returns are in ascending order of label.
C6_SortedByLabel ==
    (resp.op = "get_valueset" /\ resp.result.status = "ok") =>
        \A i, j \in 1..Len(RespValues) :
            i < j => StrLeq(RespValues[i].label, RespValues[j].label)

C6_Witness ==
    /\ resp.op = "get_valueset"
    /\ resp.include_deprecated = <<FALSE>>
    /\ resp.result.status = "ok"
    /\ Len(RespValues) = 2
    /\ StrLess(RespValues[1].label, RespValues[2].label)
    /\ StrLess(RespValues[2].accession, RespValues[1].accession)

\* C7: the value_count of every summary of list_valuesets is the number of
\* term rows of that vocabulary, the deprecated ones counted too.
C7_ValueCount ==
    resp.op = "list_valuesets" =>
        \A i \in 1..Len(resp.result) :
            resp.result[i].value_count =
                Cardinality({v \in db.valueset_values : v.valueset = resp.result[i].accession})

C7_Witness ==
    /\ resp.op = "list_valuesets"
    /\ \E i \in 1..Len(resp.result) :
          /\ resp.result[i].value_count = 2
          /\ \E v \in ValuesOf(db, resp.result[i].accession) : v.deprecated = 1

\* C8: list_valuesets returns one summary per stored vocabulary row, in
\* ascending order of accession.
C8_ListOrdered ==
    resp.op = "list_valuesets" =>
        /\ Len(resp.result) = Cardinality(db.valuesets)
        /\ {resp.result[i].accession : i \in 1..Len(resp.result)} = Accessions(db.valuesets)
        /\ \A i, j \in 1..Len(resp.result) :
              i < j => StrLess(resp.result[i].accession, resp.result[j].accession)

C8_Witness ==
    /\ resp.op = "list_valuesets"
    /\ Len(resp.result) = 2

\* The call's file has a header line that lacks a required column.
HeaderLacksColumn == File.readable /\ File.header # {} /\ ~HasRequiredColumns(File)

NamesMissingColumns ==
    /\ raised.type = "ValueError"
    /\ raised.msg = "CSV missing required columns"
    /\ Range(raised.columns) = Range(required_columns) \ File.header

\* C9 as claimed: a CSV whose header lacks a required column fails with an
\* error that names the missing columns, and nothing is inserted.
C9_AnyFileNamesColumns ==
    (pc = "done" /\ HeaderLacksColumn) => (NamesMissingColumns /\ db = pre)

\* C9 (amended): a CSV with at least one data row whose header lacks a
\* required column fails with an error that names the missing columns, and
\* nothing is inserted.
C9_MissingColumns ==
    (pc = "done" /\ HeaderLacksColumn /\ File.rows # <<>>) =>
        /\ NamesMissingColumns
        /\ db = pre
        /\ tx = NoSession

C9_Witness ==
    /\ pc = "done"
    /\ File.header = HeaderWrong
    /\ File.rows # <<>>
    /\ Len(raised.columns) = 5
    /\ db # EmptyTables

\* C10: a CSV without data rows fails with an error and leaves the store
\* unchanged, and no stored vocabulary is without terms.
C10_NoDataRows ==
    /\ (pc = "done" /\ File.readable /\ File.rows = <<>>) =>
          /\ raised = ValueError("CSV file is empty")
          /\ db = pre
          /\ tx = NoSession
    /\ \A vs \in db.valuesets : ValuesOf(db, vs.accession) # {}

C10_Witness ==
    /\ pc = "done"
    /\ File.readable
    /\ File.header = HeaderFull
    /\ File.rows = <<>>
    /\ raised.msg = "CSV file is empty"
    /\ db # EmptyTables

(***************************************************************************)
(* Claims about the ingest-csv command, under SpecCli.                     *)
(***************************************************************************)
\* The vocabulary row stored for an accession, as a set of at most one row.
VocabularyOf(tables, accession) == {vs \in tables.valuesets : vs.accession = accession}

\* The file of the i-th log entry of a directory run was left as it was
\* before the run.
LeftAsBefore(stem) ==
    /\ VocabularyOf(db, stem) = VocabularyOf(pre, stem)
    /\ ValuesOf(db, stem) = ValuesOf(pre, stem)

\* ingest_directory came to every file of the directory, in order, and
\* every file that did not fail is fully stored.
AllFilesTried ==
    /\ cli.exit_code = 0
    /\ raised = NoError
    /\ Len(cli.log) = Len(cli.directory)
    /\ \A i \in 1..Len(cli.log) :
          /\ cli.log[i].csv_file = cli.directory[i]
          /\ cli.log[i].raised = NoError =>
                HoldsFile(db, cli.directory[i].stem, cli.directory[i].file)

\* C11 as claimed: after a directory ingestion in which some files fail,
\* every other file is fully ingested, ingest_directory has not raised, and
\* the vocabulary of every failing file is absent from the store.
C11_FailedFilesAbsent ==
    cli.mode = "directory" =>
        /\ AllFilesTried
        /\ \A i \in 1..Len(cli.log) :
              cli.log[i].raised # NoError =>
                  /\ ~Stored(db, cli.directory[i].stem)
                  /\ ValuesOf(db, cli.directory[i].stem) = {}

\* C11 (amended): after a directory ingestion, in whatever order the files
\* were processed, every file was tried, every file that did not fail is
\* fully ingested, ingest_directory has not raised, and the vocabulary of a
\* failing file is as it was before the run: absent if it was absent.
C11_DirectoryBestEffort ==
    cli.mode = "directory" =>
        /\ AllFilesTried
        /\ \A i \in 1..Len(cli.log) :
              cli.log[i].raised # NoError =>
                  /\ LeftAsBefore(cli.directory[i].stem)
                  /\ ~Stored(pre, cli.directory[i].stem) =>
                        /\ ~Stored(db, cli.directory[i].stem)
                        /\ ValuesOf(db, cli.directory[i].stem) = {}

\* Three files, the first one processed malformed, the two after it stored.
C11_Witness ==
    /\ cli.mode = "directory"
    /\ Len(cli.log) = 3
    /\ cli.log[1].raised.msg = "CSV missing required columns"
    /\ cli.log[2].raised = NoError
    /\ cli.log[3].raised = NoError
    /\ ~Stored(db, cli.directory[1].stem)
    /\ Cardinality(db.valuesets) = 2
    /\ Cardinality(db.valueset_values) = 3

\* The accession a single-file run stores under, and what the YAML file
\* holds for a key of an accession.
CliAccession == IF cli.accession # None THEN cli.accession ELSE cli.csv_file[1].stem

YamlEntry(accession, key) ==
    IF \E y \in cli.metadata : y[1] = accession /\ y[2] = key
    THEN (CHOOSE y \in cli.metadata : y[1] = accession /\ y[2] = key)[3]
    ELSE None

DefaultDefinition(accession) == "ValueSet: " \o accession

DefaultFullDefinition(accession) == "Full definition for " \o accession

\* First of the three that is given at all (given: not None).
FirstGiven(cli_arg, yaml_value, default) ==
    IF cli_arg # None THEN cli_arg ELSE IF yaml_value # None THEN yaml_value ELSE default

\* First of the three that is given and not the empty text.
FirstNonEmpty(cli_arg, yaml_value, default) ==
    IF cli_arg \notin {None, ""} THEN cli_arg
    ELSE IF yaml_value \notin {None, ""} THEN yaml_value ELSE default

\* The vocabulary row of the accession holds these two texts.
StoredMetadata(accession, definition, full_definition) ==
    \E vs \in db.valuesets :
        /\ vs.accession = accession
        /\ vs.definition = definition
        /\ vs.full_definition = full_definition

C13_DirectoryPrecedence ==
    cli.mode = "directory" =>
        \A i \in 1..Len(cli.log) :
            cli.log[i].raised = NoError =>
                StoredMetadata(cli.directory[i].stem,
                               FirstGiven(cli.definition,
                                          YamlEntry(cli.directory[i].stem, "definition"),
                                          DefaultDefinition(cli.directory[i].stem)),
                               FirstGiven(cli.full_definition,
                                          YamlEntry(cli.directory[i].stem, "full_definition"),
                                          DefaultFullDefinition(cli.directory[i].stem)))

\* The row stored for a term accession.
TermRow(accession) == CHOOSE v \in db.valueset_values : v.accession = accession

\* A single-file run has just stored the vocabulary in `valueset`.
FileIngested == cli.mode = "file" /\ cli.exit_code = 0 /\ valueset # <<>>

\* The four JSON columns of the row stored for an inserted term: NULL
\* exactly for an empty collection, never the text of an empty array or
\* object.
NullForEmpty(inserted) ==
    /\ TermRow(inserted.accession).identical_terms = None <=> inserted.identical_terms = <<>>
    /\ TermRow(inserted.accession).similar_terms = None <=> inserted.similar_terms = <<>>
    /\ TermRow(inserted.accession).deprecated_to = None <=> inserted.deprecated_to = <<>>
    /\ TermRow(inserted.accession).additional = None <=> inserted.additional = <<>>
    /\ TermRow(inserted.accession).identical_terms # "[]"
    /\ TermRow(inserted.accession).similar_terms # "[]"
    /\ TermRow(inserted.accession).deprecated_to # "[]"
    /\ TermRow(inserted.accession).additional # "{}"

\* A NULL column reads back as the empty collection.
NullReadsEmpty(read) ==
    /\ TermRow(read.accession).identical_terms = None => read.identical_terms = <<>>
    /\ TermRow(read.accession).similar_terms = None => read.similar_terms = <<>>
    /\ TermRow(read.accession).deprecated_to = None => read.deprecated_to = <<>>
    /\ TermRow(read.accession).additional = None => read.additional = <<>>

\* C16: after insert_valueset stored a vocabulary, get_term of each of its
\* terms returns a term equal to the one inserted, its identical_terms,
\* similar_terms, deprecated_to and additional included; an empty collection
\* is stored as NULL, not as the text of an empty array, and a NULL column
\* reads back as the empty collection.
C16_JsonRoundTrip ==
    FileIngested =>
        \A i \in 1..Len(valueset[1].values) :
            /\ get_term(db, valueset[1].values[i].accession).status = "ok"
            /\ get_term(db, valueset[1].values[i].accession).term[1] = valueset[1].values[i]
            /\ NullForEmpty(valueset[1].values[i])
            /\ NullReadsEmpty(get_term(db, valueset[1].values[i].accession).term[1])

\* A term stored with a URL list and a mapping, and with NULL for its empty
\* similar_terms.
C16_Witness ==
    /\ FileIngested
    /\ \E i \in 1..Len(valueset[1].values) :
          /\ valueset[1].values[i].identical_terms = <<"http://x/">>
          /\ valueset[1].values[i].similar_terms = <<>>
          /\ valueset[1].values[i].additional # <<>>
          /\ TermRow(valueset[1].values[i].accession).identical_terms = "[\"http://x/\"]"
          /\ TermRow(valueset[1].values[i].accession).similar_terms = None
          /\ TermRow(valueset[1].values[i].accession).additional = "{\"icd10\": \"E11\"}"
          /\ get_term(db, valueset[1].values[i].accession).term[1].identical_terms
                = <<"http://x/">>

(***************************************************************************)
(* Claims about the read operations and the HTTP endpoints, under Spec.    *)
(***************************************************************************)
\* The last request was GET /term and get_term returned a term; the last
\* request was GET /list/valuesets/{namespace} and get_valueset returned a
\* vocabulary.
TermReturned == resp.op = "get_term" /\ resp.result.status = "ok"

ValuesetReturned == resp.op = "get_valueset" /\ resp.result.status = "ok"

\* What C14 says of a term and of what enrich_term_with_purl made of it.
EnrichedAsClaimed(term, enriched) ==
    IF term.pURL # None THEN enriched = term
    ELSE enriched = [term EXCEPT !.pURL = "https://api.example.com/terms/" \o term.accession]

\* C14: a term that get_term or get_valueset returned with a pURL leaves the
\* endpoint unchanged; a term returned without one leaves it with pURL set
\* to <base URL>/terms/<accession> and every other field as it was.
C14_EnrichKeepsPresentPurl ==
    /\ TermReturned =>
          /\ resp.http.status = 200
          /\ EnrichedAsClaimed(resp.result.term[1], resp.http.body[1])
    /\ ValuesetReturned =>
          /\ resp.http.status = 200
          /\ Len(resp.http.body[1].values) = Len(resp.result.valueset[1].values)
          /\ \A i \in 1..Len(resp.result.valueset[1].values) :
                EnrichedAsClaimed(resp.result.valueset[1].values[i],
                                  resp.http.body[1].values[i])

\* A vocabulary answered with two terms: one came with its own pURL, which
\* it kept, the other came without and got the generated one.
C14_Witness ==
    /\ ValuesetReturned
    /\ \E i, j \in 1..Len(resp.result.valueset[1].values) :
          /\ resp.result.valueset[1].values[i].pURL = "https://example.org/t2"
          /\ resp.http.body[1].values[i].pURL = "https://example.org/t2"
          /\ resp.result.valueset[1].values[j].pURL = None
          /\ resp.http.body[1].values[j].pURL =
                "https://api.example.com/terms/" \o resp.result.valueset[1].values[j].accession

NonEmptyPurl(entity) == entity.pURL \notin {None, ""}

\* C15: every 200 answer carries non-empty pURLs: the term of GET /term, the
\* vocabulary and each of its terms of GET /list/valuesets/{namespace}, and
\* each summary of GET /list/valuesets.
C15_EveryAnswerHasPurl ==
    resp.http.status = 200 =>
        /\ resp.op = "get_term" => NonEmptyPurl(resp.http.body[1])
        /\ resp.op = "get_valueset" =>
              /\ NonEmptyPurl(resp.http.body[1])
              /\ \A i \in 1..Len(resp.http.body[1].values) :
                    NonEmptyPurl(resp.http.body[1].values[i])
        /\ resp.op = "list_valuesets" =>
              \A i \in 1..Len(resp.http.body) : NonEmptyPurl(resp.http.body[i])

\* A term stored without a pURL is answered with one.
C15_Witness ==
    /\ resp.op = "get_term"
    /\ resp.http.status = 200
    /\ \E v \in db.valueset_values : v.accession = resp.accession /\ v.purl = None
    /\ resp.http.body[1].pURL = "https://api.example.com/terms/" \o resp.accession

\* C18: health_check returns true when the trivial query succeeds and false
\* when it fails, and raises in neither case; GET /health answers 200 with
\* "healthy" in the first case and 503 with "unhealthy" in the second.
C18_HealthCheckNeverRaises ==
    resp.op = "health_check" =>
        /\ resp.result.status = "ok"
        /\ resp.result.healthy = <<resp.outcome = "ok">>
        /\ resp.outcome = "ok" =>
              resp.http = HttpResponse(200, <<[status |-> "healthy"]>>)
        /\ resp.outcome # "ok" =>
              resp.http = HttpResponse(503, <<[status |-> "unhealthy"]>>)

\* The query failed on a closed connection and the probe was answered 503.
C18_Witness ==
    /\ resp.op = "health_check"
    /\ resp.outcome = "InterfaceError"
    /\ resp.result.healthy = <<FALSE>>
    /\ resp.http.status = 503

TermStored(accession) == \E v \in db.valueset_values : v.accession = accession

\* C19: whenever a lookup is answered, get_term / get_valueset returned None
\* exactly if no row with the accession is stored, and the endpoint answers
\* 404 for a missing term or vocabulary and 200 for a stored one, never 500.
C19_NotFoundIs404 ==
    /\ resp.op = "get_term" =>
          /\ resp.result.status = "none" <=> ~TermStored(resp.accession)
          /\ resp.http.status = IF TermStored(resp.accession) THEN 200 ELSE 404
    /\ resp.op = "get_valueset" =>
          /\ resp.result.status = "none" <=> ~Stored(db, resp.namespace)
          /\ resp.http.status = IF Stored(db, resp.namespace) THEN 200 ELSE 404

\* A term that is not in a non-empty store was answered 404, and so was a
\* vocabulary.
C19_Witness ==
    /\ db.valueset_values # {}
    /\ \/ /\ resp.op = "get_term"
          /\ ~TermStored(resp.accession)
          /\ resp.result.status = "none"
          /\ resp.http.status = 404
       \/ /\ resp.op = "get_valueset"
          /\ ~Stored(db, resp.namespace)
          /\ resp.result.status = "none"
          /\ resp.http.status = 404

\* C20: a step that answers a read (get_term, list_valuesets, get_valueset,
\* health_check, with the enrichment of the endpoints) leaves both tables as
\* they were, and the committed tables change only in the loader's commit.
C20_ReadsLeaveStoreUnchanged ==
    [][ /\ (pc = "idle" /\ resp'.op # "none") => UNCHANGED <<db, tx, pending>>
        /\ (db' # db) => (pc = "commit" /\ resp'.op = "none") ]_vars

\* A term was answered with a generated pURL, and its row still has none.
C20_Witness ==
    /\ resp.op = "get_term"
    /\ resp.http.status = 200
    /\ resp.result.term[1].pURL = None
    /\ resp.http.body[1].pURL # None
    /\ \E v \in db.valueset_values : v.accession = resp.accession /\ v.purl = None

(***************************************************************************)
(* Claims about reads of stored JSON text, under SpecStored.               *)
(***************************************************************************)
\* C17: whatever text the JSON columns of a stored term row hold, get_term
\* of the term and get_valueset of its vocabulary do not raise: the term is
\* returned.
C17_CorruptJsonNeverRaises ==
    /\ (resp.op = "get_term" /\ TermStored(resp.accession)) => resp.result.status = "ok"
    /\ (resp.op = "get_valueset" /\ Stored(db, resp.namespace)) => resp.result.status = "ok"

(***************************************************************************)
(* Claims about the store's invariants and the loader's errors, under      *)
(* Spec.                                                                   *)
(***************************************************************************)
UniqueAccessions(tables) ==
    \A v, w \in tables.valueset_values : v.accession = w.accession => v = w

\* The file names an accession in two of its rows; the file names an
\* accession that was stored under another vocabulary before the call.
RepeatsAccession(file) ==
    \E i, j \in 1..Len(file.rows) : i < j /\ file.rows[i].accession = file.rows[j].accession

StoredElsewhere(file, accession) ==
    \E i \in 1..Len(file.rows) :
        \E v \in pre.valueset_values :
            v.accession = file.rows[i].accession /\ v.valueset # accession

\* C21: in every committed state no two term rows share an accession, and
\* an ingest of a file that names an accession twice, or one stored under a
\* different vocabulary, fails and leaves the store as it was.
C21_GloballyUniqueAccessions ==
    /\ UniqueAccessions(db)
    /\ (pc = "done" /\ File.readable /\ HasRequiredColumns(File)
          /\ (RepeatsAccession(File) \/ StoredElsewhere(File, X))) =>
          /\ raised # NoError
          /\ db = pre

\* A file of valid rows failed at the commit because one of its accessions
\* is a term of another vocabulary.
C21_Witness ==
    /\ pc = "done"
    /\ File.readable /\ HasRequiredColumns(File)
    /\ StoredElsewhere(File, X)
    /\ ~RepeatsAccession(File)
    /\ raised.type = "IntegrityError"
    /\ db = pre
    /\ ~Stored(db, X)

NoOrphans(tables) ==
    \A v \in tables.valueset_values :
        Cardinality({vs \in tables.valuesets : vs.accession = v.valueset}) = 1

\* C22: in every committed state each term row's valueset is the accession
\* of exactly one stored vocabulary row; inside the session too, where the
\* delete of the vocabulary being replaced has taken all its term rows with
\* it before the new rows are inserted.
C22_NoOrphanTerms ==
    /\ NoOrphans(db)
    /\ tx.open => NoOrphans(tx.tables)
    /\ pc = "commit" =>
          /\ ~Stored(tx.tables, valueset[1].accession)
          /\ ValuesOf(tx.tables, valueset[1].accession) = {}

\* A replacement is about to commit: the old vocabulary had terms, and
\* the session holds none of them any more.
C22_Witness ==
    /\ pc = "commit"
    /\ Stored(db, X)
    /\ ValuesOf(db, X) # {}
    /\ ValuesOf(tx.tables, X) = {}
    /\ db.valuesets # tx.tables.valuesets

\* C29: an ingest for accession X, successful or failed, leaves every
\* other vocabulary as it was: at every step of the call, and after it, the
\* committed vocabulary row and term rows of every accession other than X
\* are those the store held when the call started.
C29_OtherVocabulariesUntouched ==
    call # NoCall =>
        \A Y \in Namespaces \ {X} :
            /\ VocabularyOf(db, Y) = VocabularyOf(pre, Y)
            /\ ValuesOf(db, Y) = ValuesOf(pre, Y)

\* A stored vocabulary was replaced while another vocabulary with terms
\* was in the store.
C29_Witness ==
    /\ pc = "done"
    /\ raised = NoError
    /\ Stored(pre, X)
    /\ ValuesOf(pre, X) # {}
    /\ db # pre
    /\ \E Y \in Namespaces \ {X} :
          /\ Stored(pre, Y)
          /\ ValuesOf(pre, Y) # {}
          /\ ValuesOf(db, Y) = ValuesOf(pre, Y)

(***************************************************************************)
(* Claims about one ingest_csv call, under SpecLoader.                     *)
(***************************************************************************)
\* C23: every term row stored by ingestion with deprecated = false has an
\* empty deprecated_to.
C23_DeprecatedToOnlyIfDeprecated ==
    \A v \in db.valueset_values :
        v.deprecated = 0 => GetJsonList(v.deprecated_to).items = <<>>

\* The data rows (1-indexed) of the file that do not validate, and a call
\* that got as far as validating the rows and found such a row.
FailingRows == {k \in 1..Len(File.rows) : ~ParseRow(File.rows[k], X).ok}

RowsFailed ==
    /\ pc = "done"
    /\ File.readable
    /\ File.rows # <<>>
    /\ HasRequiredColumns(File)
    /\ FailingRows # {}

\* C26: the error of the k-th data row carries the row number k + 1, for
\* every failing k: the collected errors are those numbers, and the numbers
\* listed in the raised error are among them.
C26_RowNumbers ==
    RowsFailed =>
        /\ raised.msg = "Failed to parse rows"
        /\ Range(ScanRows(File.rows, X, 1).errors) = {k + 1 : k \in FailingRows}
        /\ \A n \in Range(raised.rows) : n >= 2 /\ (n - 1) \in FailingRows
        /\ Cardinality(FailingRows) <= 10 => \A k \in FailingRows : (k + 1) \in Range(raised.rows)

\* The third data row is the only one that fails, and it is reported as
\* row 4.
C26_Witness ==
    /\ RowsFailed
    /\ Len(File.rows) >= 4
    /\ FailingRows = {3}
    /\ raised.rows = <<4>>

\* C27: the scan goes over every data row; the one error raised states the
\* number E of failing rows and lists the first min(10, E) of them in row
\* order; nothing is stored.
C27_AllRowErrorsCollected ==
    RowsFailed =>
        /\ raised.type = "ValueError"
        /\ raised.count = Cardinality(FailingRows)
        /\ Len(raised.rows) = IF raised.count < 10 THEN raised.count ELSE 10
        /\ \A i, j \in 1..Len(raised.rows) : i < j => raised.rows[i] < raised.rows[j]
        /\ \A n \in Range(raised.rows) : (n - 1) \in FailingRows
        /\ \A n \in Range(raised.rows) :
              \A k \in FailingRows : k + 1 < n => (k + 1) \in Range(raised.rows)
        /\ db = pre
        /\ valueset = <<>>

\* Eleven of twelve rows fail, a good row among them: the error counts
\* eleven and lists ten.
C27_Witness ==
    /\ RowsFailed
    /\ Len(File.rows) = 12
    /\ 1 \in FailingRows
    /\ 2 \notin FailingRows
    /\ raised.count = 11
    /\ Len(raised.rows) = 10
    /\ raised.rows[10] = 12

\* The cell of a column in a data row (None: no such column, or a line too
\* short for it), and the cells the lenient decoder answers with the
\* default: empty, missing, or not JSON.
JsonColumns == {"identical_terms", "similar_terms", "deprecated_to", "additional"}

CellOf(row, column) == IF column \in DOMAIN row THEN row[column] ELSE None

Lenient(cell) == cell \in {"", None} \/ ~IsJson(cell)

\* C28: a row whose four JSON cells are each empty, missing or malformed is
\* accepted and stored; and in every accepted row each JSON column with such
\* a cell has the empty default in the term and NULL in the stored row.
C28_LenientDecoder ==
    (pc = "done" /\ File.readable /\ File.rows # <<>> /\ HasRequiredColumns(File)) =>
        /\ (\A i \in 1..Len(File.rows) :
               /\ \A column \in JsonColumns : Lenient(CellOf(File.rows[i], column))
               /\ CellOf(File.rows[i], "pURL") = "") => raised = NoError
        /\ raised = NoError =>
              \A i \in 1..Len(File.rows) :
                  \A column \in JsonColumns :
                      Lenient(CellOf(File.rows[i], column)) =>
                          /\ valueset[1].values[i][column] = <<>>
                          /\ TermRow(File.rows[i].accession)[column] = None

\* A stored row whose identical_terms cell was not JSON, whose similar_terms
\* cell was missing and whose additional cell was a JSON object.
C28_Witness ==
    /\ pc = "done"
    /\ raised = NoError
    /\ Len(File.rows) = 1
    /\ File.header = HeaderFull
    /\ File.rows[1].identical_terms = "{oops"
    /\ File.rows[1].similar_terms = None
    /\ File.rows[1].deprecated_to = ""
    /\ File.rows[1].additional = "{\"icd10\": \"E11\"}"
    /\ valueset[1].values[1].identical_terms = <<>>
    /\ TermRow("t1").identical_terms = None
    /\ TermRow("t1").additional # None

\* C30: ingest_csv run a second time, right after a successful run with the
\* same file, accession and metadata, succeeds as well and leaves the store
\* as the first run left it.
C30_IngestIdempotent ==
    pc = "again" =>
        /\ raised = NoError
        /\ db = pre

\* The second run replaced a vocabulary of several terms by itself.
C30_Witness ==
    /\ pc = "again"
    /\ raised = NoError
    /\ Len(File.rows) >= 2
    /\ HoldsFile(pre, X, File)
    /\ HoldsFile(db, X, File)

(***************************************************************************)
(* A claim about the command's exit code, under SpecCli.                   *)
(***************************************************************************)
\* C25: the command exits with code 1 and stores nothing when the CSV file,
\* the directory or the YAML metadata file it is given does not exist, and
\* when a single-file ingestion fails; a run that an input check ends has
\* not created the loader.
C25_BadInputExitsOne ==
    /\ (cli.mode = "bad-input" /\ "missing" \in {cli.input_path, cli.metadata_path}) =>
          /\ cli.exit_code = 1
          /\ db = pre
    /\ cli.mode = "bad-input" => ~cli.loader
    /\ (cli.mode = "file" /\ raised # NoError) =>
          /\ cli.exit_code = 1
          /\ db = pre

\* A run on a database that holds a vocabulary was given a directory that
\* does not exist.
C25_Witness ==
    /\ cli.mode = "bad-input"
    /\ cli.argument = "directory"
    /\ cli.input_path = "missing"
    /\ cli.metadata_path = "yaml"
    /\ cli.error = "Directory not found"
    /\ cli.exit_code = 1
    /\ db.valuesets # {}
    /\ db = pre

(***************************************************************************)
(* A claim about two ingests at the same time, under SpecConcurrent.       *)
(***************************************************************************)
BothFinished == \A p \in Procs : workers.proc[p].pc = "done"

LastCommitter == workers.commits[Len(workers.commits)]

\* C24: when two ingests of the same accession have run at the same time
\* and both have finished, the vocabulary is stored and its terms are
\* exactly the rows of the file of the ingest that committed last; when
\* neither committed, the store is as it was.
C24_LastCommitWins ==
    BothFinished =>
        IF workers.commits = <<>>
        THEN db = pre
        ELSE HoldsFile(db, "vsA", workers.proc[LastCommitter].csv_path.file)

====
